---- MODULE Spec2Model ----
(***************************************************************************)
(* Validation and sandboxing pipeline of WEB_STATIC items:                 *)
(*   src/src/utils/html_validator.py  (syntax, size, security, sanitizer)  *)
(*   src/src/utils/constants.py       (size limits, pattern registry)      *)
(* Texts are sequences of characters; a character is a one-letter string,  *)
(* or the name "U+xxxx" of a code point outside ASCII.                     *)
(***************************************************************************)
EXTENDS Integers, Sequences, FiniteSets, TLC

VARIABLES
    pc,            \* control point of the caller
    html_content,  \* argument of the call in progress
    pos,           \* parser.feed: index of the next markup token
    tag_stack,     \* HTMLSyntaxValidator.tag_stack
    errors,        \* HTMLSyntaxValidator.errors
    parser_fed,    \* an HTMLSyntaxValidator was built and fed in this call
    syntax,        \* result of validate_html_syntax
    size,          \* result of validate_html_size
    security,      \* result of scan_dangerous_patterns
    verdict,       \* dict returned by validate_web_static_content
    exc,           \* exception that left the call, or "none"
    san_out,       \* text returned by sanitize_html_for_rendering
    san_in,        \* text given to sanitize_html_for_rendering
    dlg_pc,        \* EmbeddedBrowserDialog: "absent", "sandboxing" or "ready"
    self_url,      \* EmbeddedBrowserDialog.url
    self_html_content, \* EmbeddedBrowserDialog.html_content
    settings,      \* self.browser.settings(): attribute -> value
    sandbox_step,  \* setAttribute calls _setup_sandboxing has made
    events,        \* show events and load calls the dialog has handled
    loads,         \* what the browser was told to load, in order
    callers,       \* concurrent callers: caller -> the locals of its call
    parsers        \* HTMLSyntaxValidator objects: object -> tag_stack, errors

\* the state of one call of the validator or of the sanitizer
call_vars == <<pc, html_content, pos, tag_stack, errors, parser_fed, syntax, size,
               security, verdict, exc, san_out, san_in>>

\* the state of the other users of the pipeline
dialog_vars == <<dlg_pc, self_url, self_html_content, settings, sandbox_step,
                 events, loads>>

conc_vars == <<callers, parsers>>

rest_vars == <<dialog_vars, conc_vars>>

vars == <<call_vars, rest_vars>>

----------------------------------------------------------------------------
(* Bounds of the explored inputs.                                          *)

\* longest token sequence given to validate_web_static_content
MaxValToks == 3
\* longest token sequence that is also followed by a filler run
MaxPadToks == 1
\* longest token sequence given to sanitize_html_for_rendering
MaxSanToks == 3
\* most show events and load calls one dialog handles
MaxEvents == 3
\* longest token sequence a concurrent caller validates
MaxConcToks == 2

----------------------------------------------------------------------------
(* Constants of src/src/utils/constants.py                                 *)

WEB_STATIC_SIZE_SOFT_LIMIT == 100 * 1024
WEB_STATIC_SIZE_HARD_LIMIT == 500 * 1024

----------------------------------------------------------------------------
(* Sequences and texts                                                     *)

Max(a, b) == IF a >= b THEN a ELSE b
Min(a, b) == IF a <= b THEN a ELSE b

\* s[a:b] of Python for 0 <= b (0-based, b exclusive, clipped to the text);
\* a negative a counts from the end
Slice(s, a, b) ==
    LET lo == IF a < 0 THEN Max(0, Len(s) + a) ELSE Min(a, Len(s))
        hi == Max(lo, Min(b, Len(s)))
    IN  [i \in 1..(hi - lo) |-> s[lo + i]]

\* concatenation of ss[lo..hi], by halves
RECURSIVE FlattenRange(_, _, _)
FlattenRange(ss, lo, hi) ==
    IF lo > hi THEN <<>>
    ELSE IF lo = hi THEN ss[lo]
    ELSE LET mid == (lo + hi) \div 2
         IN  FlattenRange(ss, lo, mid) \o FlattenRange(ss, mid + 1, hi)

Flatten(ss) == FlattenRange(ss, 1, Len(ss))

Spaces(n) == [i \in 1..n |-> " "]

\* sub occurs in s at 0-based offset i
OccursAt(s, sub, i) ==
    /\ i >= 0
    /\ i + Len(sub) <= Len(s)
    /\ \A k \in 1..Len(sub) : s[i + k] = sub[k]

\* str.find(sub): 0-based offset of the first occurrence, or -1
Find(s, sub) ==
    LET hits == {i \in 0..Len(s) : OccursAt(s, sub, i)}
    IN  IF hits = {} THEN -1 ELSE CHOOSE i \in hits : \A j \in hits : i <= j

\* sub in s
Contains(s, sub) == Find(s, sub) # -1

\* number of offsets at which sub occurs in s
Occurrences(s, sub) == Cardinality({i \in 0..Len(s) : OccursAt(s, sub, i)})

\* str.replace(old, new, 1): only the first occurrence is replaced; an empty
\* old occurs at offset 0
ReplaceFirst(s, old, new) ==
    LET i == Find(s, old)
    IN  IF i = -1 THEN s
        ELSE Slice(s, 0, i) \o new \o Slice(s, i + Len(old), Len(s))

\* str.lower() of one character.  U+0130 (capital I with dot above) lowers
\* to the two characters "i", U+0307: the lowered text can be longer.
LowerChar(c) ==
    CASE c = "H" -> <<"h">>
      [] c = "E" -> <<"e">>
      [] c = "A" -> <<"a">>
      [] c = "D" -> <<"d">>
      [] c = "T" -> <<"t">>
      [] c = "M" -> <<"m">>
      [] c = "L" -> <<"l">>
      [] c = "P" -> <<"p">>
      [] c = "V" -> <<"v">>
      [] c = "I" -> <<"i">>
      [] c = "C" -> <<"c">>
      [] c = "S" -> <<"s">>
      [] c = "F" -> <<"f">>
      [] c = "U+0130" -> <<"i", "U+0307">>
      [] OTHER -> <<c>>

\* str.lower()
Lower(s) == Flatten([i \in 1..Len(s) |-> LowerChar(s[i])])

\* characters str.strip() removes
Whitespace == {" ", "\n", "\t", "\r"}

\* the check "not s" in place of "not s.strip()"
IsEmptyText(s) == s = <<>>

\* not s.strip()
StripIsEmpty(s) == \A i \in 1..Len(s) : s[i] \in Whitespace

\* bytes of one character in UTF-8; 0 marks a lone surrogate, which
\* str.encode('utf-8') refuses with UnicodeEncodeError
Utf8Len(c) ==
    CASE c = "U+D800" -> 0
      [] c \in {"U+0130", "U+0307", "U+00E9"} -> 2
      [] c = "U+20AC" -> 3
      [] c = "U+1F600" -> 4
      [] OTHER -> 1

RECURSIVE Utf8Bytes(_)
Utf8Bytes(s) == IF s = <<>> THEN 0 ELSE Utf8Len(Head(s)) + Utf8Bytes(Tail(s))

HasSurrogate(s) == \E i \in 1..Len(s) : Utf8Len(s[i]) = 0

----------------------------------------------------------------------------
(* sanitize_html_for_rendering: the policy element, line by line           *)

NL == <<"\n">>

csp_line0 ==
    Spaces(0) \o
    <<"<", "m", "e", "t", "a", " ", "h", "t", "t", "p", "-", "e", "q", "u", "i", "v", "=",
      "\"", "C", "o", "n", "t", "e", "n", "t", "-", "S", "e", "c", "u", "r", "i", "t", "y",
      "-", "P", "o", "l", "i", "c", "y", "\"">>

csp_line1 ==
    Spaces(10) \o
    <<"c", "o", "n", "t", "e", "n", "t", "=", "\"", "d", "e", "f", "a", "u", "l", "t", "-",
      "s", "r", "c", " ", "'", "s", "e", "l", "f", "'", ";">>

csp_line2 ==
    Spaces(19) \o
    <<"s", "c", "r", "i", "p", "t", "-", "s", "r", "c", " ", "'", "u", "n", "s", "a", "f",
      "e", "-", "i", "n", "l", "i", "n", "e", "'", " ", "'", "u", "n", "s", "a", "f", "e",
      "-", "e", "v", "a", "l", "'", ";">>

csp_line3 ==
    Spaces(19) \o
    <<"s", "t", "y", "l", "e", "-", "s", "r", "c", " ", "'", "u", "n", "s", "a", "f", "e",
      "-", "i", "n", "l", "i", "n", "e", "'", ";">>

csp_line4 ==
    Spaces(19) \o
    <<"i", "m", "g", "-", "s", "r", "c", " ", "d", "a", "t", "a", ":", " ", "b", "l", "o",
      "b", ":", ";">>

csp_line5 ==
    Spaces(19) \o
    <<"c", "o", "n", "n", "e", "c", "t", "-", "s", "r", "c", " ", "'", "n", "o", "n", "e",
      "'", ";">>

csp_line6 ==
    Spaces(19) \o
    <<"f", "o", "n", "t", "-", "s", "r", "c", " ", "'", "n", "o", "n", "e", "'", ";">>

csp_line7 ==
    Spaces(19) \o
    <<"o", "b", "j", "e", "c", "t", "-", "s", "r", "c", " ", "'", "n", "o", "n", "e", "'",
      ";">>

csp_line8 ==
    Spaces(19) \o
    <<"m", "e", "d", "i", "a", "-", "s", "r", "c", " ", "'", "n", "o", "n", "e", "'", ";">>

csp_line9 ==
    Spaces(19) \o
    <<"f", "r", "a", "m", "e", "-", "s", "r", "c", " ", "'", "n", "o", "n", "e", "'", ";",
      "\"", ">">>

csp_meta ==
    csp_line0 \o NL \o csp_line1 \o NL \o csp_line2 \o NL \o
    csp_line3 \o NL \o csp_line4 \o NL \o csp_line5 \o NL \o
    csp_line6 \o NL \o csp_line7 \o NL \o csp_line8 \o NL \o
    csp_line9

----------------------------------------------------------------------------
(* Inputs.  A content is a sequence of markup tokens followed by a filler  *)
(* run: pad.n copies of the text character pad.ch.  The run stands for the *)
(* bulk of a large document without spelling out its characters.          *)

\* the characters of a token
TokChars(tok) ==
    CASE tok = "<div>" -> <<"<", "d", "i", "v", ">">>
      [] tok = "</div>" -> <<"<", "/", "d", "i", "v", ">">>
      [] tok = "<p>" -> <<"<", "p", ">">>
      [] tok = "</p>" -> <<"<", "/", "p", ">">>
      [] tok = "<br>" -> <<"<", "b", "r", ">">>
      [] tok = "<br/>" -> <<"<", "b", "r", "/", ">">>
      [] tok = "eval(1)" -> <<"e", "v", "a", "l", "(", "1", ")">>
      [] tok = " " -> <<" ">>
      [] tok = "<![foo[" -> <<"<", "!", "[", "f", "o", "o", "[">>
      [] tok = "<head>" -> <<"<", "h", "e", "a", "d", ">">>
      [] tok = "<HEAD>" -> <<"<", "H", "E", "A", "D", ">">>
      [] tok = "<html>" -> <<"<", "h", "t", "m", "l", ">">>
      [] tok = "<Html>" -> <<"<", "H", "t", "m", "l", ">">>
      [] tok = "head>" -> <<"h", "e", "a", "d", ">">>
      [] tok = "x" -> <<"x">>
      [] tok = "U+D800" -> <<"U+D800">>
      [] tok = "U+0130" -> <<"U+0130">>
      [] tok = "<iframe>" -> <<"<", "i", "f", "r", "a", "m", "e", ">">>
      [] tok = "Fetch (" -> <<"F", "e", "t", "c", "h", " ", "(">>
      [] tok = "</br>" -> <<"<", "/", "b", "r", ">">>
      [] tok = "<span>" -> <<"<", "s", "p", "a", "n", ">">>
      [] tok = "<ul>" -> <<"<", "u", "l", ">">>
      [] tok = "</ul>" -> <<"<", "/", "u", "l", ">">>
      [] tok = "<li>" -> <<"<", "l", "i", ">">>
      [] tok = "a" -> <<"a">>
      [] tok = "b" -> <<"b">>
      [] tok = "text" -> <<"t", "e", "x", "t">>
      [] tok = "</span>" -> <<"<", "/", "s", "p", "a", "n", ">">>
      [] tok = "<!--" -> <<"<", "!", "-", "-">>
      [] tok = "-->" -> <<"-", "-", ">">>
      [] tok = "<script>" -> <<"<", "s", "c", "r", "i", "p", "t", ">">>
      [] tok = "</script>" -> <<"<", "/", "s", "c", "r", "i", "p", "t", ">">>
      [] tok = "<html lang=\"en\">" -> <<"<", "h", "t", "m", "l", " ", "l", "a", "n", "g", "=", "\"", "e", "n", "\"", ">">>
      [] tok = "<head lang=\"en\">" -> <<"<", "h", "e", "a", "d", " ", "l", "a", "n", "g", "=", "\"", "e", "n", "\"", ">">>
      [] tok = "<HTML lang=\"en\">" -> <<"<", "H", "T", "M", "L", " ", "l", "a", "n", "g", "=", "\"", "e", "n", "\"", ">">>

\* what HTMLParser.feed reports for a token: the handler it calls and the
\* tag name (already lower-cased by the parser); "marked" is a marked
\* section with an unknown keyword, on which feed raises AssertionError
TokEvent(tok) ==
    CASE tok = "<div>"  -> [kind |-> "starttag",    tag |-> "div"]
      [] tok = "</div>" -> [kind |-> "endtag",      tag |-> "div"]
      [] tok = "<p>"    -> [kind |-> "starttag",    tag |-> "p"]
      [] tok = "</p>"   -> [kind |-> "endtag",      tag |-> "p"]
      [] tok = "<br>"   -> [kind |-> "starttag",    tag |-> "br"]
      [] tok = "<br/>"  -> [kind |-> "startendtag", tag |-> "br"]
      [] tok = "<head>" -> [kind |-> "starttag",    tag |-> "head"]
      [] tok = "<HEAD>" -> [kind |-> "starttag",    tag |-> "head"]
      [] tok = "<html>" -> [kind |-> "starttag",    tag |-> "html"]
      [] tok = "<Html>" -> [kind |-> "starttag",    tag |-> "html"]
      [] tok = "<![foo[" -> [kind |-> "marked",     tag |-> ""]
      [] tok = "<iframe>" -> [kind |-> "starttag",  tag |-> "iframe"]
      [] tok = "</br>"  -> [kind |-> "endtag",      tag |-> "br"]
      [] tok = "<span>" -> [kind |-> "starttag",    tag |-> "span"]
      [] tok = "</span>" -> [kind |-> "endtag",     tag |-> "span"]
      [] tok = "<html lang=\"en\">" -> [kind |-> "starttag", tag |-> "html"]
      [] tok = "<HTML lang=\"en\">" -> [kind |-> "starttag", tag |-> "html"]
      [] tok = "<head lang=\"en\">" -> [kind |-> "starttag", tag |-> "head"]
      [] tok = "<ul>"   -> [kind |-> "starttag",    tag |-> "ul"]
      [] tok = "</ul>"  -> [kind |-> "endtag",      tag |-> "ul"]
      [] tok = "<li>"   -> [kind |-> "starttag",    tag |-> "li"]
      [] OTHER          -> [kind |-> "data",        tag |-> ""]

\* tokens of the contents given to validate_web_static_content
ValTokens ==
    {"<div>", "</div>", "<p>", "<br>", "<br/>", "eval(1)", " ", "U+D800", "<![foo["}

\* tokens of the contents given to sanitize_html_for_rendering
SanTokens == {"<head>", "<HEAD>", "<html>", "<Html>", "head>", "U+0130", "x", "<p>"}

\* sequences over S of length at most n
SeqsUpTo(S, n) == UNION {[1..k -> S] : k \in 0..n}

\* filler characters, of 1, 2, 3 and 4 bytes in UTF-8
PadChars == {"x", "U+00E9", "U+20AC", "U+1F600"}

NoPad == [ch |-> "x", n |-> 0]

\* the characters of the tokens of a content, without the filler run
TokText(toks) == Flatten([i \in 1..Len(toks) |-> TokChars(toks[i])])

\* filler runs that bring a token sequence to, or just past, a size limit
PadsFor(toks) ==
    {[ch |-> c, n |-> ((lim - Utf8Bytes(TokText(toks))) \div Utf8Len(c)) + d] :
        c \in PadChars,
        lim \in {WEB_STATIC_SIZE_SOFT_LIMIT, WEB_STATIC_SIZE_HARD_LIMIT},
        d \in {0, 1}}

\* longer documents: patterns of several kinds, lists, paragraphs, void
\* elements with an end tag, a tag closed over an open one
EX_SCAN == <<"Fetch (", "<iframe>", "eval(1)", "eval(1)">>
EX_LIST == <<"<ul>", "<li>", "a", "<li>", "b", "</ul>">>
EX_PARA == <<"<div>", "<p>", "text", "</p>", "</div>">>
EX_VOID_END == <<"<div>", "<br>", "</br>", "</div>">>
EX_LONE_VOID_END == <<"</br>">>
EX_CROSSED == <<"<div>", "<span>", "</div>">>
EX_CROSSED_DEEP == <<"<div>", "<span>", "<p>", "</div>", "</span>">>
EX_STRAY_P == <<"</p>">>
EX_STRAY_P_INSIDE == <<"<div>", "</p>", "</span>", "</div>">>

ExampleInputs ==
    {[toks |-> t, pad |-> NoPad] :
        t \in {EX_SCAN, EX_LIST, EX_PARA, EX_VOID_END, EX_LONE_VOID_END, EX_CROSSED,
               EX_CROSSED_DEEP, EX_STRAY_P, EX_STRAY_P_INSIDE}}

ValInputs ==
    ExampleInputs
    \cup {[toks |-> t, pad |-> NoPad] : t \in SeqsUpTo(ValTokens, MaxValToks)}
    \cup UNION {{[toks |-> t, pad |-> p] : p \in PadsFor(t)} :
                    t \in SeqsUpTo(ValTokens, MaxPadToks)}

\* documents whose first <head> or <html> is in a comment or in a script,
\* and documents whose html and head tags carry attributes
EX_COMMENTED_HEAD == <<"<!--", "<head>", "-->", "<p>">>
EX_COMMENTED_HTML == <<"<!--", "<html>", "-->", "<p>">>
EX_SCRIPT_HEAD == <<"<script>", "<head>", "</script>", "<p>">>
EX_ATTR_TAGS == <<"<html lang=\"en\">", "<head lang=\"en\">", "<p>">>
EX_ATTR_UPPER == <<"x", "<HTML lang=\"en\">", "<p>">>

SanExamples ==
    {[toks |-> t, pad |-> NoPad] :
        t \in {EX_COMMENTED_HEAD, EX_COMMENTED_HTML, EX_SCRIPT_HEAD, EX_ATTR_TAGS,
               EX_ATTR_UPPER}}

SanInputs ==
    SanExamples
    \cup {[toks |-> t, pad |-> NoPad] : t \in SeqsUpTo(SanTokens, MaxSanToks)}

\* the whole text of a content whose filler run is short enough to spell out
Text(c) == TokText(c.toks) \o [i \in 1..c.pad.n |-> c.pad.ch]

NoContent == [toks |-> <<>>, pad |-> [ch |-> "none", n |-> 0]]

----------------------------------------------------------------------------
(* HTMLSyntaxValidator                                                     *)

void_elements ==
    {"area", "base", "br", "col", "embed", "hr", "img",
     "input", "link", "meta", "param", "source", "track", "wbr"}

optional_close ==
    {"p", "li", "dt", "dd", "option", "tbody", "thead", "tfoot", "tr", "td", "th"}

\* one entry of an error list: the message and the tag names it cites
Err(m, ts) == [msg |-> m, tags |-> ts]

InStack(stack, tag) == \E i \in 1..Len(stack) : stack[i] = tag

\* handle_starttag that pushes every tag
handle_starttag_push_all(stack, tag) == Append(stack, tag)

\* handle_starttag: the stack after the start tag
handle_starttag(stack, tag) ==
    IF tag \in void_elements THEN stack ELSE Append(stack, tag)

\* the pop that leaves the matching frame on the stack
pop_above(stack, idx) == SubSeq(stack, 1, idx)

\* self.tag_stack[:idx] for the frame idx (counted from 1): the frames
\* strictly below it
pop_through(stack, idx) == SubSeq(stack, 1, idx - 1)

\* the mismatch branch that pops the frames down to the match all the same
mismatched_close_popping(stack, errs, idx, j, tag) ==
    [tag_stack |-> SubSeq(stack, 1, idx - 1),
     errors |-> Append(errs, Err("Tag mal cerrado", <<stack[j], tag>>))]

\* the walk met frame j, which is not optional-close, above the match idx:
\* the error is recorded and handle_endtag returns
mismatched_close(stack, errs, idx, j, tag) ==
    [tag_stack |-> stack,
     errors |-> Append(errs, Err("Tag mal cerrado", <<stack[j], tag>>))]

\* the report of an end tag without a frame, made for optional-close tags too
report_unmatched_always(errs, tag, m) == Append(errs, Err(m, <<tag>>))

\* an end tag without a frame is reported unless the tag is optional-close
report_unmatched(errs, tag, m) ==
    IF tag \notin optional_close THEN Append(errs, Err(m, <<tag>>)) ELSE errs

\* handle_endtag: the stack and the error list after the end tag
handle_endtag(stack, errs, tag) ==
    IF tag \in void_elements THEN
        [tag_stack |-> stack, errors |-> errs]
    ELSE IF stack = <<>> THEN
        [tag_stack |-> stack,
         errors |-> report_unmatched(errs, tag, "Tag de cierre sin apertura")]
    ELSE IF InStack(stack, tag) THEN
        LET \* the frame the walk from the top stops at
            idx == CHOOSE i \in 1..Len(stack) :
                       /\ stack[i] = tag
                       /\ \A j \in (i + 1)..Len(stack) : stack[j] # tag
            \* frames above it that cannot be closed silently
            blocking == {j \in (idx + 1)..Len(stack) : stack[j] \notin optional_close}
        IN  IF blocking # {} THEN
                LET j == CHOOSE j \in blocking : \A k \in blocking : k <= j
                IN  mismatched_close(stack, errs, idx, j, tag)
            ELSE
                [tag_stack |-> pop_through(stack, idx), errors |-> errs]
    ELSE
        [tag_stack |-> stack,
         errors |-> report_unmatched(errs, tag,
                        "Tag de cierre sin apertura correspondiente")]

\* the list of unclosed tags that names the optional-close frames too
unclosed_all_tags(stack) == stack

\* tags left open at the end of the input that must be closed
unclosed_critical_tags(stack) == SelectSeq(stack, LAMBDA t : t \notin optional_close)

\* the result whose valid flag looks at the parser's errors only
syntax_result_before_unclosed(stack, errs) ==
    LET unclosed == unclosed_critical_tags(stack)
        all == IF unclosed # <<>>
               THEN Append(errs, Err("Tags criticos sin cerrar", unclosed))
               ELSE errs
    IN  [valid |-> (Len(errs) = 0), errors |-> all]

\* the result of validate_html_syntax once feed has returned
syntax_result(stack, errs) ==
    LET unclosed == unclosed_critical_tags(stack)
        all == IF unclosed # <<>>
               THEN Append(errs, Err("Tags criticos sin cerrar", unclosed))
               ELSE errs
    IN  [valid |-> (Len(all) = 0), errors |-> all]

EmptyContentResult ==
    [valid |-> FALSE, errors |-> <<Err("El contenido HTML esta vacio", <<>>)>>]

ParseFailureResult ==
    [valid |-> FALSE, errors |-> <<Err("Error al parsear HTML", <<>>)>>]

----------------------------------------------------------------------------
(* validate_html_size                                                      *)

\* f"{size_kb:.1f}" in tenths of a KB: size_bytes / 1024 is exact in binary
\* floating point, and the format rounds the exact value, ties to even
KbTenths(size_bytes) ==
    LET q == (size_bytes * 10) \div 1024
        r == (size_bytes * 10) % 1024
    IN  IF r > 512 \/ (r = 512 /\ q % 2 = 1) THEN q + 1 ELSE q

\* validate_html_size that refuses a content over the soft limit
validate_html_size_strict(size_bytes) ==
    IF size_bytes > WEB_STATIC_SIZE_HARD_LIMIT THEN
        [valid |-> FALSE, level |-> "error",
         message |-> [text |-> "Contenido demasiado grande", kb10 |-> KbTenths(size_bytes)]]
    ELSE IF size_bytes > WEB_STATIC_SIZE_SOFT_LIMIT THEN
        [valid |-> FALSE, level |-> "warning",
         message |-> [text |-> "Contenido grande", kb10 |-> KbTenths(size_bytes)]]
    ELSE
        [valid |-> TRUE, level |-> "ok",
         message |-> [text |-> "Tamano", kb10 |-> KbTenths(size_bytes)]]

validate_html_size(size_bytes) ==
    IF size_bytes > WEB_STATIC_SIZE_HARD_LIMIT THEN
        [valid |-> FALSE, level |-> "error",
         message |-> [text |-> "Contenido demasiado grande", kb10 |-> KbTenths(size_bytes)]]
    ELSE IF size_bytes > WEB_STATIC_SIZE_SOFT_LIMIT THEN
        [valid |-> TRUE, level |-> "warning",
         message |-> [text |-> "Contenido grande", kb10 |-> KbTenths(size_bytes)]]
    ELSE
        [valid |-> TRUE, level |-> "ok",
         message |-> [text |-> "Tamano", kb10 |-> KbTenths(size_bytes)]]

\* len(content) in place of len(content.encode('utf-8'))
SizeChars(c) == Len(TokText(c.toks)) + c.pad.n

\* len(content.encode('utf-8')) of a content without lone surrogates
SizeBytes(c) == Utf8Bytes(TokText(c.toks)) + c.pad.n * Utf8Len(c.pad.ch)

\* len(content): the number of characters (code points)
CharCount(c) == Len(TokText(c.toks)) + c.pad.n

----------------------------------------------------------------------------
(* scan_dangerous_patterns: the pattern registry and re.findall            *)

\* one element of a pattern: a character class and its quantifier
\*   class "lit" (the letter ch, any case), "space" (\s), "any" (.),
\*   "notgt" ([^>]), "quote" (["']);  quantifier "1", "?", "*", "+"
Rx(c, l, quant) == [cls |-> c, ch |-> l, q |-> quant]

Lit(s) == [i \in 1..Len(s) |-> Rx("lit", s[i], "1")]

\* case folding of re.IGNORECASE: unlike str.lower(), one character to one
FoldChar(c) ==
    CASE c = "F" -> "f"
      [] c = "X" -> "x"
      [] c = "M" -> "m"
      [] c = "L" -> "l"
      [] c = "H" -> "h"
      [] c = "R" -> "r"
      [] c = "S" -> "s"
      [] c = "E" -> "e"
      [] c = "A" -> "a"
      [] c = "D" -> "d"
      [] c = "T" -> "t"
      [] c = "P" -> "p"
      [] c = "V" -> "v"
      [] c = "I" -> "i"
      [] c = "U+0130" -> "i"
      [] OTHER -> c

ClsMatch(it, c) ==
    CASE it.cls = "lit"   -> FoldChar(c) = FoldChar(it.ch)
      [] it.cls = "space" -> c \in Whitespace
      [] it.cls = "any"   -> c # "\n"
      [] it.cls = "notgt" -> c # ">"
      [] it.cls = "quote" -> c \in {"\"", "'"}

\* the registry, in the order of constants.py
DANGEROUS_PATTERNS == <<
        \* <iframe
        Lit(<<"<", "i", "f", "r", "a", "m", "e">>),
        \* fetch\s*\(
        Lit(<<"f", "e", "t", "c", "h">>)
            \o <<Rx("space", "", "*")>>
            \o Lit(<<"(">>),
        \* XMLHttpRequest
        Lit(<<"X", "M", "L", "H", "t", "t", "p", "R", "e", "q", "u", "e", "s", "t">>),
        \* import\s+.*from
        Lit(<<"i", "m", "p", "o", "r", "t">>)
            \o <<Rx("space", "", "+"), Rx("any", "", "*")>>
            \o Lit(<<"f", "r", "o", "m">>),
        \* <script[^>]*src=
        Lit(<<"<", "s", "c", "r", "i", "p", "t">>)
            \o <<Rx("notgt", "", "*")>>
            \o Lit(<<"s", "r", "c", "=">>),
        \* <link[^>]*href=["\']https?://
        Lit(<<"<", "l", "i", "n", "k">>)
            \o <<Rx("notgt", "", "*")>>
            \o Lit(<<"h", "r", "e", "f", "=">>)
            \o <<Rx("quote", "", "1")>>
            \o Lit(<<"h", "t", "t", "p">>)
            \o <<Rx("lit", "s", "?")>>
            \o Lit(<<":", "/", "/">>),
        \* <img[^>]*src=["\']https?://
        Lit(<<"<", "i", "m", "g">>)
            \o <<Rx("notgt", "", "*")>>
            \o Lit(<<"s", "r", "c", "=">>)
            \o <<Rx("quote", "", "1")>>
            \o Lit(<<"h", "t", "t", "p">>)
            \o <<Rx("lit", "s", "?")>>
            \o Lit(<<":", "/", "/">>),
        \* eval\s*\(
        Lit(<<"e", "v", "a", "l">>)
            \o <<Rx("space", "", "*")>>
            \o Lit(<<"(">>),
        \* Function\s*\(
        Lit(<<"F", "u", "n", "c", "t", "i", "o", "n">>)
            \o <<Rx("space", "", "*")>>
            \o Lit(<<"(">>),
        \* localStorage
        Lit(<<"l", "o", "c", "a", "l", "S", "t", "o", "r", "a", "g", "e">>),
        \* sessionStorage
        Lit(<<"s", "e", "s", "s", "i", "o", "n", "S", "t", "o", "r", "a", "g", "e">>),
        \* document\.cookie
        Lit(<<"d", "o", "c", "u", "m", "e", "n", "t", ".", "c", "o", "o", "k", "i", "e">>)
    >>

\* length of the longest run of characters of class it that starts at s[i]
RunLen(s, i, it) ==
    CHOOSE n \in 0..(Len(s) - i + 1) :
        /\ \A m \in 0..(n - 1) : ClsMatch(it, s[i + m])
        /\ (i + n > Len(s) \/ ~ClsMatch(it, s[i + n]))

\* the backtracking match of re[k..] at s[i]: the position after the match
\* the regex engine finds first (quantifiers are greedy), or 0 if none
RECURSIVE MatchEnd(_, _, _, _)
MatchEnd(s, i, re, k) ==
    IF k > Len(re) THEN i
    ELSE
        LET it == re[k]
            one == IF i <= Len(s) /\ ClsMatch(it, s[i])
                   THEN MatchEnd(s, i + 1, re, k + 1) ELSE 0
        IN  CASE it.q = "1" -> one
              [] it.q = "?" -> IF one # 0 THEN one ELSE MatchEnd(s, i, re, k + 1)
              [] OTHER ->
                    LET lo == IF it.q = "+" THEN 1 ELSE 0
                        taken == {n \in lo..RunLen(s, i, it) :
                                      MatchEnd(s, i + n, re, k + 1) # 0}
                    IN  IF taken = {} THEN 0
                        ELSE MatchEnd(s, i + (CHOOSE n \in taken :
                                                  \A m \in taken : m <= n),
                                      re, k + 1)

\* len(re.findall(pattern, s, re.IGNORECASE)): the matches are taken left to
\* right and do not overlap
RECURSIVE CountMatches(_, _, _)
CountMatches(s, from, re) ==
    LET starts == {i \in from..Len(s) : MatchEnd(s, i, re, 1) # 0}
    IN  IF starts = {} THEN 0
        ELSE LET i == CHOOSE i \in starts : \A j \in starts : i <= j
             IN  1 + CountMatches(s, MatchEnd(s, i, re, 1), re)

\* a scan that stops at the first pattern that matches
scan_until_first_match(s) ==
    LET hits == {k \in 1..Len(DANGEROUS_PATTERNS) :
                    CountMatches(s, 1, DANGEROUS_PATTERNS[k]) > 0}
        first == CHOOSE k \in hits : \A j \in hits : k <= j
    IN  IF hits = {} THEN [safe |-> TRUE, warnings |-> <<>>]
        ELSE [safe |-> FALSE,
              warnings |-> <<[pattern |-> first,
                              count |-> CountMatches(s, 1, DANGEROUS_PATTERNS[first])]>>]

\* scan_dangerous_patterns: one warning per pattern that matches, in the
\* order of the registry
scan_dangerous_patterns(s) ==
    LET found == [k \in 1..Len(DANGEROUS_PATTERNS) |->
                     [pattern |-> k, count |-> CountMatches(s, 1, DANGEROUS_PATTERNS[k])]]
        warnings == SelectSeq(found, LAMBDA w : w.count > 0)
    IN  [safe |-> (Len(warnings) = 0), warnings |-> warnings]

\* the text the scanner reads: a filler run holds no letter of a pattern, so
\* one character of it stands for the whole run
ScanText(c) == TokText(c.toks) \o [i \in 1..Min(c.pad.n, 1) |-> c.pad.ch]

----------------------------------------------------------------------------
(* sanitize_html_for_rendering                                             *)

HEAD_TAG == <<"<", "h", "e", "a", "d", ">">>
HTML_TAG == <<"<", "h", "t", "m", "l", ">">>
HEAD_CLOSE == <<"<", "/", "h", "e", "a", "d", ">">>
SKELETON_PREFIX ==
    <<"<", "!", "D", "O", "C", "T", "Y", "P", "E", " ", "h", "t", "m", "l", ">">> \o NL
    \o HTML_TAG \o NL \o HEAD_TAG \o NL \o csp_meta \o NL \o HEAD_CLOSE \o NL
    \o <<"<", "b", "o", "d", "y", ">">> \o NL
SKELETON_SUFFIX ==
    NL \o <<"<", "/", "b", "o", "d", "y", ">">> \o NL
    \o <<"<", "/", "h", "t", "m", "l", ">">>

\* the choice of branch by the tag names, whatever follows them
sanitize_case_by_tag_name(s) ==
    IF Contains(Lower(s), <<"<", "h", "e", "a", "d">>) THEN "head"
    ELSE IF Contains(Lower(s), <<"<", "h", "t", "m", "l">>) THEN "html"
    ELSE "wrap"

\* which of the three branches is taken
sanitize_case(s) ==
    IF Contains(Lower(s), HEAD_TAG) THEN "head"
    ELSE IF Contains(Lower(s), HTML_TAG) THEN "html"
    ELSE "wrap"

\* branch 1 with the lower-case literal replaced instead of the text found
inject_after_head_literal(s) == ReplaceFirst(s, HEAD_TAG, HEAD_TAG \o NL \o csp_meta)

\* branch 1: the policy goes after the text cut out of the content at the
\* offset found in the lowered content
inject_after_head(s) ==
    LET html_lower == Lower(s)
        head_pos == Find(html_lower, HEAD_TAG)
        head_tag == Slice(s, head_pos, head_pos + 6)
    IN  ReplaceFirst(s, head_tag, head_tag \o NL \o csp_meta)

\* branch 2 writing the tag found in lower case
inject_after_html_normalizing(s) ==
    LET html_lower == Lower(s)
        html_pos == Find(html_lower, HTML_TAG)
        html_tag == Slice(s, html_pos, html_pos + 6)
    IN  ReplaceFirst(s, html_tag,
            HTML_TAG \o NL \o HEAD_TAG \o NL \o csp_meta \o NL \o HEAD_CLOSE)

\* branch 2: a head block with the policy goes after the text cut out of the
\* content at the offset found in the lowered content
inject_after_html(s) ==
    LET html_lower == Lower(s)
        html_pos == Find(html_lower, HTML_TAG)
        html_tag == Slice(s, html_pos, html_pos + 6)
    IN  ReplaceFirst(s, html_tag,
            html_tag \o NL \o HEAD_TAG \o NL \o csp_meta \o NL \o HEAD_CLOSE)

\* branch 3 wrapping the lowered content instead of the content
wrap_document_lower(s) == SKELETON_PREFIX \o Lower(s) \o SKELETON_SUFFIX

\* branch 3: the content is wrapped in a document skeleton
wrap_document(s) == SKELETON_PREFIX \o s \o SKELETON_SUFFIX

sanitize_html_for_rendering(s) ==
    CASE sanitize_case(s) = "head" -> inject_after_head(s)
      [] sanitize_case(s) = "html" -> inject_after_html(s)
      [] OTHER -> wrap_document(s)

----------------------------------------------------------------------------
(* The caller: one call at a time of validate_web_static_content or of      *)
(* sanitize_html_for_rendering.  validate_web_static_content runs           *)
(* validate_html_syntax, validate_html_size and scan_dangerous_patterns in  *)
(* this order and then builds the verdict.                                  *)

NoResult == [valid |-> FALSE, errors |-> <<>>]
NoSize == [valid |-> FALSE, level |-> "none", message |-> [text |-> "", kb10 |-> 0]]
NoSecurity == [safe |-> FALSE, warnings |-> <<>>]
NoVerdict == [returned |-> FALSE]

\* control points at which a call has ended
Ended == {"done", "raised", "sanitized", "resanitized"}

Init ==
    /\ pc = "idle"
    /\ html_content = NoContent
    /\ pos = 0
    /\ tag_stack = <<>>
    /\ errors = <<>>
    /\ parser_fed = FALSE
    /\ syntax = NoResult
    /\ size = NoSize
    /\ security = NoSecurity
    /\ verdict = NoVerdict
    /\ exc = "none"
    /\ san_out = <<>>
    /\ san_in = <<>>
    /\ dlg_pc = "absent"
    /\ self_url = [is_none |-> TRUE, text |-> <<>>]
    /\ self_html_content = [is_none |-> TRUE, text |-> <<>>]
    /\ settings = [a \in {} |-> FALSE]
    /\ sandbox_step = 0
    /\ events = 0
    /\ loads = <<>>
    /\ callers = [i \in {1, 2} |->
                     [pc |-> "idle", content |-> NoContent, pos |-> 0,
                      syntax |-> NoResult, size |-> NoSize,
                      security |-> NoSecurity, verdict |-> NoVerdict]]
    /\ parsers = [o \in {1, 2} |-> [tag_stack |-> <<>>, errors |-> <<>>]]

\* a caller passes c to validate_web_static_content
CallValidate(c) ==
    /\ pc = "idle"
    /\ pc' = "syntax"
    /\ html_content' = c
    /\ UNCHANGED <<pos, tag_stack, errors, parser_fed, syntax, size, security,
                   verdict, exc, san_out>>
    /\ UNCHANGED <<san_in, rest_vars>>

\* validate_html_syntax, empty or blank content: returns at once
SyntaxEmpty ==
    /\ pc = "syntax"
    /\ StripIsEmpty(ScanText(html_content))
    /\ syntax' = EmptyContentResult
    /\ pc' = "size"
    /\ UNCHANGED <<html_content, pos, tag_stack, errors, parser_fed, size, security,
                   verdict, exc, san_out>>
    /\ UNCHANGED <<san_in, rest_vars>>

\* validate_html_syntax: parser = HTMLSyntaxValidator(); parser.feed begins
ParserNew ==
    /\ pc = "syntax"
    /\ ~StripIsEmpty(ScanText(html_content))
    /\ parser_fed' = TRUE
    /\ tag_stack' = <<>>
    /\ errors' = <<>>
    /\ pos' = 1
    /\ pc' = "feed"
    /\ UNCHANGED <<html_content, syntax, size, security, verdict, exc, san_out>>
    /\ UNCHANGED <<san_in, rest_vars>>

Feeding == pc = "feed" /\ pos <= Len(html_content.toks)
Event == TokEvent(html_content.toks[pos])

HandleStarttag ==
    /\ Feeding
    /\ Event.kind = "starttag"
    /\ tag_stack' = handle_starttag(tag_stack, Event.tag)
    /\ pos' = pos + 1
    /\ UNCHANGED <<pc, html_content, errors, parser_fed, syntax, size, security,
                   verdict, exc, san_out>>
    /\ UNCHANGED <<san_in, rest_vars>>

\* handle_startendtag does nothing
HandleStartendtag ==
    /\ Feeding
    /\ Event.kind = "startendtag"
    /\ pos' = pos + 1
    /\ UNCHANGED <<pc, html_content, tag_stack, errors, parser_fed, syntax, size,
                   security, verdict, exc, san_out>>
    /\ UNCHANGED <<san_in, rest_vars>>

HandleEndtag ==
    /\ Feeding
    /\ Event.kind = "endtag"
    /\ LET r == handle_endtag(tag_stack, errors, Event.tag)
       IN  /\ tag_stack' = r.tag_stack
           /\ errors' = r.errors
    /\ pos' = pos + 1
    /\ UNCHANGED <<pc, html_content, parser_fed, syntax, size, security, verdict,
                   exc, san_out>>
    /\ UNCHANGED <<san_in, rest_vars>>

\* text between tags: handle_data is not overridden
HandleData ==
    /\ Feeding
    /\ Event.kind = "data"
    /\ pos' = pos + 1
    /\ UNCHANGED <<pc, html_content, tag_stack, errors, parser_fed, syntax, size,
                   security, verdict, exc, san_out>>
    /\ UNCHANGED <<san_in, rest_vars>>

\* parser.feed raises; validate_html_syntax catches it and returns
FeedRaises ==
    /\ Feeding
    /\ Event.kind = "marked"
    /\ syntax' = ParseFailureResult
    /\ pc' = "size"
    /\ UNCHANGED <<html_content, pos, tag_stack, errors, parser_fed, size, security,
                   verdict, exc, san_out>>
    /\ UNCHANGED <<san_in, rest_vars>>

\* parser.feed has returned: unclosed tags are reported and the result built
SyntaxReturn ==
    /\ pc = "feed"
    /\ pos > Len(html_content.toks)
    /\ syntax' = syntax_result(tag_stack, errors)
    /\ errors' = syntax'.errors
    /\ pc' = "size"
    /\ UNCHANGED <<html_content, pos, tag_stack, parser_fed, size, security, verdict,
                   exc, san_out>>
    /\ UNCHANGED <<san_in, rest_vars>>

\* validate_html_size; content.encode('utf-8') raises on a lone surrogate
\* and nothing on the way out catches it
SizeRaises ==
    /\ pc = "size"
    /\ HasSurrogate(ScanText(html_content))
    /\ exc' = "UnicodeEncodeError"
    /\ pc' = "raised"
    /\ UNCHANGED <<html_content, pos, tag_stack, errors, parser_fed, syntax, size,
                   security, verdict, san_out>>
    /\ UNCHANGED <<san_in, rest_vars>>

SizeStep ==
    /\ pc = "size"
    /\ ~HasSurrogate(ScanText(html_content))
    /\ size' = validate_html_size(SizeBytes(html_content))
    /\ pc' = "scan"
    /\ UNCHANGED <<html_content, pos, tag_stack, errors, parser_fed, syntax, security,
                   verdict, exc, san_out>>
    /\ UNCHANGED <<san_in, rest_vars>>

ScanStep ==
    /\ pc = "scan"
    /\ security' = scan_dangerous_patterns(ScanText(html_content))
    /\ pc' = "gate"
    /\ UNCHANGED <<html_content, pos, tag_stack, errors, parser_fed, syntax, size,
                   verdict, exc, san_out>>
    /\ UNCHANGED <<san_in, rest_vars>>

\* can_save that forgets the size check
can_save_syntax_only(syntax_valid, size_valid) == syntax_valid

\* can_save that lets a security warning block the save
can_save_blocking(syntax_valid, size_valid) ==
    syntax_valid /\ size_valid /\ security.safe

\* can_save of validate_web_static_content
can_save(syntax_valid, size_valid) == syntax_valid /\ size_valid

\* is_valid that forgets the security scan
is_valid_ignoring_security(syntax_valid, size_level, security_safe) ==
    syntax_valid /\ size_level = "ok"

\* is_valid of validate_web_static_content
is_valid(syntax_valid, size_level, security_safe) ==
    syntax_valid /\ size_level = "ok" /\ security_safe

\* validate_web_static_content returns its dict
ReturnVerdict ==
    /\ pc = "gate"
    /\ verdict' = [returned |-> TRUE,
                   is_valid |-> is_valid(syntax.valid, size.level, security.safe),
                   syntax_valid |-> syntax.valid,
                   syntax_errors |-> syntax.errors,
                   size_valid |-> size.valid,
                   size_level |-> size.level,
                   size_message |-> size.message,
                   security_safe |-> security.safe,
                   security_warnings |-> security.warnings,
                   can_save |-> can_save(syntax.valid, size.valid)]
    /\ pc' = "done"
    /\ UNCHANGED <<html_content, pos, tag_stack, errors, parser_fed, syntax, size,
                   security, exc, san_out>>
    /\ UNCHANGED <<san_in, rest_vars>>

\* a caller passes c to sanitize_html_for_rendering
Sanitize(c) ==
    /\ pc = "idle"
    /\ pc' = "sanitized"
    /\ html_content' = c
    /\ san_in' = Text(c)
    /\ san_out' = sanitize_html_for_rendering(Text(c))
    /\ UNCHANGED <<pos, tag_stack, errors, parser_fed, syntax, size, security,
                   verdict, exc>>
    /\ UNCHANGED rest_vars

\* the caller passes the text it got back to sanitize_html_for_rendering again
Resanitize ==
    /\ pc = "sanitized"
    /\ pc' = "resanitized"
    /\ san_in' = san_out
    /\ san_out' = sanitize_html_for_rendering(san_out)
    /\ UNCHANGED <<html_content, pos, tag_stack, errors, parser_fed, syntax, size,
                   security, verdict, exc>>
    /\ UNCHANGED rest_vars

\* the caller is done with the result; the locals of the call are gone
Return ==
    /\ pc \in Ended
    /\ pc' = "idle"
    /\ html_content' = NoContent
    /\ pos' = 0
    /\ tag_stack' = <<>>
    /\ errors' = <<>>
    /\ parser_fed' = FALSE
    /\ syntax' = NoResult
    /\ size' = NoSize
    /\ security' = NoSecurity
    /\ verdict' = NoVerdict
    /\ exc' = "none"
    /\ san_out' = <<>>
    /\ san_in' = <<>>
    /\ UNCHANGED rest_vars

Next ==
    \/ \E c \in ValInputs : CallValidate(c)
    \/ SyntaxEmpty
    \/ ParserNew
    \/ HandleStarttag
    \/ HandleStartendtag
    \/ HandleEndtag
    \/ HandleData
    \/ FeedRaises
    \/ SyntaxReturn
    \/ SizeRaises
    \/ SizeStep
    \/ ScanStep
    \/ ReturnVerdict
    \/ \E c \in SanInputs : Sanitize(c)
    \/ Resanitize
    \/ Return

Spec == Init /\ [][Next]_vars

----------------------------------------------------------------------------
(* EmbeddedBrowserDialog (src/src/views/dialogs/embedded_browser_dialog.py) *)

\* the attributes _setup_sandboxing sets, in its order, with their values
SANDBOX_POLICY == <<
    [attr |-> "LocalStorageEnabled",             value |-> FALSE],
    [attr |-> "LocalContentCanAccessFileUrls",   value |-> FALSE],
    [attr |-> "LocalContentCanAccessRemoteUrls", value |-> FALSE],
    [attr |-> "AllowRunningInsecureContent",     value |-> FALSE],
    [attr |-> "JavascriptEnabled",               value |-> TRUE],
    [attr |-> "PluginsEnabled",                  value |-> FALSE],
    [attr |-> "JavascriptCanOpenWindows",        value |-> FALSE] >>

WebAttributes == {SANDBOX_POLICY[k].attr : k \in 1..Len(SANDBOX_POLICY)}

\* the settings of a new QWebEngineView: the defaults Qt documents, or a
\* profile in which the application has enabled every attribute
QtDefaults ==
    [a \in WebAttributes |->
        a \in {"LocalStorageEnabled", "LocalContentCanAccessFileUrls",
               "JavascriptEnabled", "JavascriptCanOpenWindows"}]

AllEnabled == [a \in WebAttributes |-> TRUE]

BrowserDefaults == {QtDefaults, AllEnabled}

\* a constructor argument: None or a value
None == [is_none |-> TRUE, text |-> <<>>]
Given(t) == [is_none |-> FALSE, text |-> t]

\* truth value of an argument in "if html_content:" and "elif self.url:"
Truthy(arg) == ~arg.is_none /\ arg.text # <<>>

EXAMPLE_URL == <<"h", "t", "t", "p", "s", ":", "/", "/", "a", ".", "b">>

UrlArgs == {None, Given(<<>>), Given(EXAMPLE_URL)}

\* static documents given to the dialog
\* a document that went through the sanitizer before it was stored
STORED_SANITIZED == sanitize_html_for_rendering(TokText(<<"U+0130", "U+0130", "<head>">>))

DialogTexts ==
    {TokText(<<"<p>">>), TokText(<<"U+0130", "U+0130", "<head>">>), STORED_SANITIZED}

HtmlArgs == {None, Given(<<>>)} \cup {Given(t) : t \in DialogTexts}

EmptyQUrl == <<>>

\* __init__ with the settings step that never sandboxes a static document
needs_sandboxing_for_url(url, html) == Truthy(url)

\* __init__: "if html_content: self._setup_sandboxing()"
needs_sandboxing(url, html) == Truthy(html)

\* load_static_html handing the raw document to the browser
static_load_raw(html, flags, step, who) ==
    [kind |-> "setHtml", doc |-> html, base_url |-> EmptyQUrl, raw |-> html,
     flags |-> flags, step |-> step, via |-> who]

\* load_static_html: the setHtml call it makes, with the settings in force
static_load(html, flags, step, who) ==
    [kind |-> "setHtml", doc |-> sanitize_html_for_rendering(html),
     base_url |-> EmptyQUrl, raw |-> html, flags |-> flags, step |-> step, via |-> who]

\* load_url: the setUrl call it makes, with the settings in force
url_load(url, flags, step, who) ==
    [kind |-> "setUrl", doc |-> <<>>, base_url |-> url, raw |-> <<>>,
     flags |-> flags, step |-> step, via |-> who]

\* EmbeddedBrowserDialog(url, html_content): __init__ up to the sandbox setup;
\* _init_ui builds the browser, whose settings are the profile's
Construct(url, html, defaults) ==
    /\ dlg_pc = "absent"
    /\ self_url' = url
    /\ self_html_content' = html
    /\ settings' = defaults
    /\ sandbox_step' = 0
    /\ dlg_pc' = IF needs_sandboxing(url, html) THEN "sandboxing" ELSE "ready"
    /\ UNCHANGED <<events, loads>>
    /\ UNCHANGED <<call_vars, conc_vars>>

\* _setup_sandboxing: the next settings.setAttribute call; after the last
\* one __init__ returns
SetAttribute ==
    /\ dlg_pc = "sandboxing"
    /\ sandbox_step' = sandbox_step + 1
    /\ settings' = [settings EXCEPT ![SANDBOX_POLICY[sandbox_step + 1].attr] =
                                        SANDBOX_POLICY[sandbox_step + 1].value]
    /\ dlg_pc' = IF sandbox_step + 1 = Len(SANDBOX_POLICY) THEN "ready" ELSE "sandboxing"
    /\ UNCHANGED <<self_url, self_html_content, events, loads>>
    /\ UNCHANGED <<call_vars, conc_vars>>

\* the dialog exists and can take one more event
Handling ==
    /\ dlg_pc = "ready"
    /\ events < MaxEvents
    /\ events' = events + 1

\* showEvent: loads the stored document, else the stored url, else nothing
ShowEvent ==
    /\ Handling
    /\ loads' = IF Truthy(self_html_content) THEN
                    Append(loads, static_load(self_html_content.text, settings,
                                              sandbox_step, "showEvent"))
                ELSE IF Truthy(self_url) THEN
                    Append(loads, url_load(self_url.text, settings, sandbox_step,
                                           "showEvent"))
                ELSE loads
    /\ UNCHANGED <<dlg_pc, self_url, self_html_content, settings, sandbox_step>>
    /\ UNCHANGED <<call_vars, conc_vars>>

\* a caller of the dialog calls load_static_html(html)
LoadStaticHtml(html) ==
    /\ Handling
    /\ loads' = Append(loads, static_load(html, settings, sandbox_step, "caller"))
    /\ UNCHANGED <<dlg_pc, self_url, self_html_content, settings, sandbox_step>>
    /\ UNCHANGED <<call_vars, conc_vars>>

\* load_url that switches the sandbox off for the normal browser mode
LoadUrlReconfiguring(url) ==
    /\ Handling
    /\ loads' = Append(loads, url_load(url, settings, sandbox_step, "caller"))
    /\ settings' = [settings EXCEPT !["LocalStorageEnabled"] = TRUE]
    /\ UNCHANGED <<dlg_pc, self_url, self_html_content, sandbox_step>>
    /\ UNCHANGED <<call_vars, conc_vars>>

\* a caller of the dialog calls load_url(url)
LoadUrl(url) ==
    /\ Handling
    /\ loads' = Append(loads, url_load(url, settings, sandbox_step, "caller"))
    /\ UNCHANGED <<dlg_pc, self_url, self_html_content, settings, sandbox_step>>
    /\ UNCHANGED <<call_vars, conc_vars>>

NextDialog ==
    \/ \E url \in UrlArgs, html \in HtmlArgs, defaults \in BrowserDefaults :
           Construct(url, html, defaults)
    \/ SetAttribute
    \/ ShowEvent
    \/ \E html \in DialogTexts : LoadStaticHtml(html)
    \/ LoadUrl(EXAMPLE_URL)

SpecDialog == Init /\ [][NextDialog]_vars

----------------------------------------------------------------------------
(* Several callers of validate_web_static_content at once.  The locals of *)
(* a call are the caller's; the HTMLSyntaxValidator a call creates is an   *)
(* object of its own.                                                      *)

Callers == {1, 2}

ConcTokens == {"<div>", "</div>", "eval(1)"}

ConcInputs == {[toks |-> t, pad |-> NoPad] : t \in SeqsUpTo(ConcTokens, MaxConcToks)}

IdleCaller ==
    [pc |-> "idle", content |-> NoContent, pos |-> 0, syntax |-> NoResult,
     size |-> NoSize, security |-> NoSecurity, verdict |-> NoVerdict]

\* HTMLSyntaxValidator with its lists on the class: every call uses one object
parser_of_shared(i) == 1

\* the object HTMLSyntaxValidator() gives caller i
parser_of(i) == i

\* HTMLSyntaxValidator() that keeps the lists of the object it replaces
new_parser_stale(old) == old

\* HTMLSyntaxValidator.__init__: self.tag_stack = [], self.errors = []
new_parser(old) == [tag_stack |-> <<>>, errors |-> <<>>]

\* the dict validate_web_static_content returns
build_verdict(sy, sz, se) ==
    [returned |-> TRUE,
     is_valid |-> is_valid(sy.valid, sz.level, se.safe),
     syntax_valid |-> sy.valid,
     syntax_errors |-> sy.errors,
     size_valid |-> sz.valid,
     size_level |-> sz.level,
     size_message |-> sz.message,
     security_safe |-> se.safe,
     security_warnings |-> se.warnings,
     can_save |-> can_save(sy.valid, sz.valid)]

\* caller i passes c to validate_web_static_content
CCall(i, c) ==
    /\ callers[i].pc = "idle"
    /\ callers' = [callers EXCEPT ![i].pc = "syntax", ![i].content = c]
    /\ UNCHANGED parsers
    /\ UNCHANGED <<call_vars, dialog_vars>>

\* validate_html_syntax: blank content returns at once, else the parser is
\* created and feed begins
CSyntaxStart(i) ==
    /\ callers[i].pc = "syntax"
    /\ IF StripIsEmpty(ScanText(callers[i].content))
       THEN /\ callers' = [callers EXCEPT ![i].pc = "size",
                                          ![i].syntax = EmptyContentResult]
            /\ UNCHANGED parsers
       ELSE /\ callers' = [callers EXCEPT ![i].pc = "feed", ![i].pos = 1]
            /\ parsers' = [parsers EXCEPT ![parser_of(i)] = new_parser(@)]
    /\ UNCHANGED <<call_vars, dialog_vars>>

\* parser.feed: the handler of the next tag or text runs
CFeed(i) ==
    /\ callers[i].pc = "feed"
    /\ callers[i].pos <= Len(callers[i].content.toks)
    /\ LET ev == TokEvent(callers[i].content.toks[callers[i].pos])
           p == parsers[parser_of(i)]
       IN  CASE ev.kind = "starttag" ->
                  /\ parsers' = [parsers EXCEPT ![parser_of(i)].tag_stack =
                                     handle_starttag(p.tag_stack, ev.tag)]
                  /\ callers' = [callers EXCEPT ![i].pos = @ + 1]
             [] ev.kind = "endtag" ->
                  /\ parsers' = [parsers EXCEPT ![parser_of(i)] =
                                     handle_endtag(p.tag_stack, p.errors, ev.tag)]
                  /\ callers' = [callers EXCEPT ![i].pos = @ + 1]
             [] ev.kind = "marked" ->
                  /\ callers' = [callers EXCEPT ![i].pc = "size",
                                                ![i].syntax = ParseFailureResult]
                  /\ UNCHANGED parsers
             [] OTHER ->
                  /\ callers' = [callers EXCEPT ![i].pos = @ + 1]
                  /\ UNCHANGED parsers
    /\ UNCHANGED <<call_vars, dialog_vars>>

\* parser.feed has returned: unclosed tags are reported and the result built
CSyntaxReturn(i) ==
    /\ callers[i].pc = "feed"
    /\ callers[i].pos > Len(callers[i].content.toks)
    /\ LET p == parsers[parser_of(i)]
           res == syntax_result(p.tag_stack, p.errors)
       IN  /\ callers' = [callers EXCEPT ![i].pc = "size", ![i].syntax = res]
           /\ parsers' = [parsers EXCEPT ![parser_of(i)].errors = res.errors]
    /\ UNCHANGED <<call_vars, dialog_vars>>

\* validate_html_size
CSize(i) ==
    /\ callers[i].pc = "size"
    /\ IF HasSurrogate(ScanText(callers[i].content))
       THEN callers' = [callers EXCEPT ![i].pc = "raised"]
       ELSE callers' = [callers EXCEPT ![i].pc = "scan",
                            ![i].size = validate_html_size(SizeBytes(callers[i].content))]
    /\ UNCHANGED parsers
    /\ UNCHANGED <<call_vars, dialog_vars>>

\* scan_dangerous_patterns
CScan(i) ==
    /\ callers[i].pc = "scan"
    /\ callers' = [callers EXCEPT ![i].pc = "gate",
                       ![i].security = scan_dangerous_patterns(ScanText(callers[i].content))]
    /\ UNCHANGED parsers
    /\ UNCHANGED <<call_vars, dialog_vars>>

\* validate_web_static_content returns its dict to caller i
CReturnVerdict(i) ==
    /\ callers[i].pc = "gate"
    /\ callers' = [callers EXCEPT ![i].pc = "done",
                       ![i].verdict = build_verdict(callers[i].syntax, callers[i].size,
                                                    callers[i].security)]
    /\ UNCHANGED parsers
    /\ UNCHANGED <<call_vars, dialog_vars>>

\* caller i is done with the verdict; the locals of the call are gone
CReturn(i) ==
    /\ callers[i].pc \in {"done", "raised"}
    /\ callers' = [callers EXCEPT ![i] = IdleCaller]
    /\ UNCHANGED parsers
    /\ UNCHANGED <<call_vars, dialog_vars>>

NextCallers ==
    \E i \in Callers :
        \/ \E c \in ConcInputs : CCall(i, c)
        \/ CSyntaxStart(i)
        \/ CFeed(i)
        \/ CSyntaxReturn(i)
        \/ CSize(i)
        \/ CScan(i)
        \/ CReturnVerdict(i)
        \/ CReturn(i)

SpecCallers == Init /\ [][NextCallers]_vars

----------------------------------------------------------------------------
(* Properties                                                              *)

\* the call in progress is validate_web_static_content and it has returned
VerdictReturned == pc = "done" /\ verdict.returned

\* C1: in every verdict returned by validate_web_static_content, can_save is
\* true exactly when syntax_valid and size_valid are both true.
C1_CanSaveIffSyntaxAndSize ==
    VerdictReturned =>
        (verdict.can_save <=> (verdict.syntax_valid /\ verdict.size_valid))

\* a verdict whose syntax is valid and whose size is over the hard limit
C1_Witness ==
    /\ VerdictReturned
    /\ verdict.syntax_valid
    /\ ~verdict.size_valid
    /\ ~verdict.can_save

\* C2: in every verdict returned by validate_web_static_content, is_valid is
\* true exactly when syntax_valid is true, size_level is "ok" and
\* security_safe is true.
C2_IsValidIffAllClean ==
    VerdictReturned =>
        (verdict.is_valid <=>
            (verdict.syntax_valid /\ verdict.size_level = "ok" /\ verdict.security_safe))

\* a verdict that only the security scan keeps from being valid
C2_Witness ==
    /\ VerdictReturned
    /\ verdict.syntax_valid
    /\ verdict.size_level = "ok"
    /\ ~verdict.security_safe
    /\ ~verdict.is_valid

\* the UTF-8 byte length of a content, counted from its tokens and its run
ByteLength(c) == Utf8Bytes(TokText(c.toks)) + c.pad.n * Utf8Len(c.pad.ch)

BalancedEval == [toks |-> <<"<div>", "eval(1)", "</div>">>, pad |-> NoPad]

\* C3: security warnings never block save: a content whose syntax check
\* records no error and whose UTF-8 size is at most 512000 bytes gets
\* can_save = TRUE whatever the scan reports; <div>eval(1)</div> gets
\* can_save = TRUE and is_valid = FALSE.
C3_WarningsNeverBlockSave ==
    VerdictReturned =>
        /\ (syntax.errors = <<>> /\ ByteLength(html_content) <= 512000)
               => verdict.can_save
        /\ html_content = BalancedEval
               => (verdict.can_save /\ ~verdict.is_valid /\ ~verdict.security_safe)

\* the verdict of <div>eval(1)</div>: a warning, and the save is allowed
C3_Witness ==
    /\ VerdictReturned
    /\ html_content = BalancedEval
    /\ Len(verdict.security_warnings) = 1
    /\ verdict.can_save

\* C4: validate_html_size classifies by the UTF-8 byte length n, not by the
\* number of characters: n <= 102400 gives (TRUE, "ok"), 102400 < n <= 512000
\* gives (TRUE, "warning"), n > 512000 gives (FALSE, "error").
C4_SizeClassifiedByBytes ==
    pc \in {"scan", "gate", "done"} =>
        LET n == ByteLength(html_content)
        IN  /\ n <= 102400 => (size.valid /\ size.level = "ok")
            /\ (102400 < n /\ n <= 512000) => (size.valid /\ size.level = "warning")
            /\ n > 512000 => (~size.valid /\ size.level = "error")

\* fewer than 102400 characters, 102401 bytes: classified as "warning"
C4_Witness ==
    /\ pc = "scan"
    /\ CharCount(html_content) < 102400
    /\ ByteLength(html_content) = 102401
    /\ size.level = "warning"

\* the content is empty or made of blanks only
BlankContent ==
    /\ html_content # NoContent
    /\ html_content.pad.n = 0
    /\ \A i \in 1..Len(html_content.toks) : html_content.toks[i] = " "

\* C5: for an empty or whitespace-only input the syntax result is invalid
\* with exactly one error, the empty-content error; the tag parser is never
\* run on it; the verdict has can_save = FALSE and is_valid = FALSE.
C5_BlankShortCircuits ==
    BlankContent =>
        /\ ~parser_fed
        /\ pc \notin {"feed", "raised"}
        /\ pc \in {"size", "scan", "gate", "done"} =>
               /\ ~syntax.valid
               /\ syntax.errors = <<Err("El contenido HTML esta vacio", <<>>)>>
        /\ pc = "done" =>
               /\ verdict.returned
               /\ ~verdict.syntax_valid
               /\ verdict.syntax_errors = <<Err("El contenido HTML esta vacio", <<>>)>>
               /\ ~verdict.can_save
               /\ ~verdict.is_valid

\* the verdict of a content of two blanks
C5_Witness ==
    /\ VerdictReturned
    /\ html_content.toks = <<" ", " ">>
    /\ html_content.pad.n = 0
    /\ ~verdict.can_save

\* C6: no exception crosses the validation boundary: every call of
\* validate_web_static_content returns a verdict.
C6_NoExceptionEscapes == pc # "raised" /\ exc = "none"

\* a directive of the policy with the value 'none'
NoneDirective(name) == name \o <<" ", "'", "n", "o", "n", "e", "'", ";">>

\* the policy element holds the five directives with the value 'none'
CspDirectivesNone ==
    /\ Contains(csp_meta, NoneDirective(<<"c", "o", "n", "n", "e", "c", "t", "-", "s", "r", "c">>))
    /\ Contains(csp_meta, NoneDirective(<<"f", "o", "n", "t", "-", "s", "r", "c">>))
    /\ Contains(csp_meta, NoneDirective(<<"o", "b", "j", "e", "c", "t", "-", "s", "r", "c">>))
    /\ Contains(csp_meta, NoneDirective(<<"m", "e", "d", "i", "a", "-", "s", "r", "c">>))
    /\ Contains(csp_meta, NoneDirective(<<"f", "r", "a", "m", "e", "-", "s", "r", "c">>))

\* C7: for every input, well formed or not, the output of
\* sanitize_html_for_rendering contains the fixed policy element.
C7_OutputCarriesCsp ==
    pc = "sanitized" => (Contains(san_out, csp_meta) /\ CspDirectivesNone)

\* the output for <HEAD> alone
C7_Witness ==
    /\ pc = "sanitized"
    /\ html_content.toks = <<"<HEAD>">>
    /\ Contains(san_out, csp_meta)

\* s holds tag, in any letter case, at 0-based offset i
TagAt(s, tag, i) ==
    /\ i + Len(tag) <= Len(s)
    /\ \A k \in 1..Len(tag) : LowerChar(s[i + k]) = <<tag[k]>>

HasTag(s, tag) == \E i \in 0..Len(s) : TagAt(s, tag, i)

FirstTag(s, tag) ==
    CHOOSE i \in 0..Len(s) : TagAt(s, tag, i) /\ \A j \in 0..(i - 1) : ~TagAt(s, tag, j)

\* s with ins put right after the six characters at offset i
InsertedAfter(s, i, ins) == Slice(s, 0, i + 6) \o ins \o Slice(s, i + 6, Len(s))

\* C8: when the input contains <head> (any letter case) the policy element
\* is inserted immediately after the first such occurrence, whose letter
\* case is kept, whether or not <html> is present; nothing else changes.
C8_CspRightAfterHead ==
    pc = "sanitized" =>
        LET s == Text(html_content)
        IN  HasTag(s, HEAD_TAG) =>
                san_out = InsertedAfter(s, FirstTag(s, HEAD_TAG), NL \o csp_meta)

\* C9: when the input contains no <head> but <html> (any letter case), a
\* head block holding the policy element once is inserted right after the
\* first <html> occurrence.
C9_HeadBlockRightAfterHtml ==
    pc = "sanitized" =>
        LET s == Text(html_content)
        IN  (~HasTag(s, HEAD_TAG) /\ HasTag(s, HTML_TAG)) =>
                san_out = InsertedAfter(s, FirstTag(s, HTML_TAG),
                              NL \o <<"<", "h", "e", "a", "d", ">">> \o NL \o csp_meta
                                 \o NL \o <<"<", "/", "h", "e", "a", "d", ">">>)

\* the skeleton document around s, spelled out
SkeletonAround(s) ==
    <<"<", "!", "D", "O", "C", "T", "Y", "P", "E", " ", "h", "t", "m", "l", ">", "\n">>
    \o <<"<", "h", "t", "m", "l", ">", "\n">>
    \o <<"<", "h", "e", "a", "d", ">", "\n">> \o csp_meta
    \o <<"\n", "<", "/", "h", "e", "a", "d", ">", "\n">>
    \o <<"<", "b", "o", "d", "y", ">", "\n">> \o s
    \o <<"\n", "<", "/", "b", "o", "d", "y", ">", "\n">>
    \o <<"<", "/", "h", "t", "m", "l", ">">>

\* C10: when the input contains neither <head> nor <html> (any letter case)
\* the output is the skeleton document: doctype, html, head with the policy
\* element, and a body holding the whole input unchanged.
C10_WrappedInSkeleton ==
    pc = "sanitized" =>
        LET s == Text(html_content)
        IN  (~HasTag(s, HEAD_TAG) /\ ~HasTag(s, HTML_TAG)) => san_out = SkeletonAround(s)

\* a wrapped input that holds a capital letter whose lowering is longer
C10_Witness ==
    /\ pc = "sanitized"
    /\ html_content.toks = <<"U+0130", "<p>">>
    /\ san_out = SkeletonAround(<<"U+0130", "<", "p", ">">>)

\* the number of policy elements a text holds
CspCount(s) ==
    Cardinality({i \in 0..(Len(s) - Len(csp_meta)) : OccursAt(s, csp_meta, i)})

\* C11: sanitize_html_for_rendering is not idempotent: every call adds
\* exactly one policy element, so the result of sanitizing the output of a
\* previous call holds one more policy element than that output.
C11_EachCallAddsOneCsp ==
    pc \in {"sanitized", "resanitized"} => CspCount(san_out) = CspCount(san_in) + 1

----------------------------------------------------------------------------
(* The dialog that renders static documents                                *)

\* the flag values the sandbox policy asks for
SandboxedFlags ==
    [a \in {"LocalStorageEnabled", "LocalContentCanAccessFileUrls",
            "LocalContentCanAccessRemoteUrls", "AllowRunningInsecureContent",
            "PluginsEnabled", "JavascriptCanOpenWindows", "JavascriptEnabled"}
       |-> a = "JavascriptEnabled"]

StaticLoads == {k \in 1..Len(loads) : loads[k].kind = "setHtml"}

\* C12: whenever load_static_html hands a document to the browser, after any
\* construction, show and load operations, the six restricted settings are
\* false and JavascriptEnabled is true.
C12_StaticLoadsSandboxed ==
    \A k \in StaticLoads : loads[k].flags = SandboxedFlags

\* C13: in a dialog constructed with static content, _setup_sandboxing has
\* made all its setAttribute calls before any load the dialog issues, show
\* events' setHtml calls included, and no load is issued while the settings
\* are being applied.
C13_SandboxBeforeLoad ==
    /\ dlg_pc = "sandboxing" => loads = <<>>
    /\ (dlg_pc # "absent" /\ Truthy(self_html_content)) =>
           \A k \in 1..Len(loads) :
               /\ loads[k].step = 7
               /\ loads[k].flags = SandboxedFlags
               /\ loads[k].via = "showEvent" => loads[k].kind = "setHtml"

C13_Witness ==
    /\ Truthy(self_html_content)
    /\ sandbox_step = 7
    /\ \E k \in 1..Len(loads) : loads[k].via = "showEvent" /\ loads[k].kind = "setHtml"

\* C14: once the dialog is constructed, neither showEvent nor
\* load_static_html nor load_url changes a browser setting, so all the loads
\* of one dialog were made under the same flag values.
C14_SettingsFixedAfterInit ==
    [][dlg_pc = "ready" =>
           /\ settings' = settings
           /\ \A k \in 1..Len(loads') : loads'[k].flags = settings]_vars

C14_Witness ==
    /\ Len(loads) = 3
    /\ loads[1].kind = "setUrl" /\ loads[1].via = "caller"
    /\ loads[2].kind = "setHtml" /\ loads[2].via = "showEvent"
    /\ loads[3].kind = "setHtml" /\ loads[3].via = "caller"
    /\ loads[3].raw # loads[2].raw

\* C15: every setHtml call of load_static_html passes the output of
\* sanitize_html_for_rendering on the content, never the content itself,
\* and an empty base url.
C15_StaticLoadsSanitized ==
    \A k \in StaticLoads :
        /\ loads[k].doc = sanitize_html_for_rendering(loads[k].raw)
        /\ loads[k].doc # loads[k].raw
        /\ loads[k].base_url = <<>>

C15_Witness ==
    /\ \E k \in StaticLoads : loads[k].via = "showEvent"
    /\ \E k \in StaticLoads : loads[k].via = "caller" /\ Len(loads[k].doc) > Len(csp_meta)

----------------------------------------------------------------------------
(* Calls of validate_web_static_content next to other calls                *)

\* the stack and errors after the handlers ran on toks[k..], one call alone
RECURSIVE FeedAlone(_, _, _, _)
FeedAlone(toks, k, stack, errs) ==
    IF k > Len(toks) THEN syntax_result(stack, errs)
    ELSE LET ev == TokEvent(toks[k])
         IN  CASE ev.kind = "starttag" ->
                    FeedAlone(toks, k + 1, handle_starttag(stack, ev.tag), errs)
               [] ev.kind = "endtag" ->
                    LET r == handle_endtag(stack, errs, ev.tag)
                    IN  FeedAlone(toks, k + 1, r.tag_stack, r.errors)
               [] ev.kind = "marked" -> ParseFailureResult
               [] OTHER -> FeedAlone(toks, k + 1, stack, errs)

\* the verdict of a call on c that runs alone, from start to end
VerdictAlone(c) ==
    LET sy == IF StripIsEmpty(ScanText(c)) THEN EmptyContentResult
              ELSE FeedAlone(c.toks, 1, <<>>, <<>>)
        sz == validate_html_size(SizeBytes(c))
        se == scan_dangerous_patterns(ScanText(c))
    IN  [returned |-> TRUE,
         is_valid |-> sy.valid /\ sz.level = "ok" /\ se.safe,
         syntax_valid |-> sy.valid,
         syntax_errors |-> sy.errors,
         size_valid |-> sz.valid,
         size_level |-> sz.level,
         size_message |-> sz.message,
         security_safe |-> se.safe,
         security_warnings |-> se.warnings,
         can_save |-> sy.valid /\ sz.valid]

HasVerdict(i) == callers[i].pc = "done"

\* C16: validate_web_static_content is deterministic and free of side
\* effects: two calls on the same content return equal verdicts, whatever
\* calls came before or between them, and the tag stack and error list of an
\* earlier call are not seen by a later one.
C16_SameContentSameVerdict ==
    \A i \in Callers, j \in Callers :
        (HasVerdict(i) /\ HasVerdict(j) /\ callers[i].content = callers[j].content)
            => callers[i].verdict = callers[j].verdict

C16_Witness ==
    /\ HasVerdict(1) /\ HasVerdict(2)
    /\ callers[1].content = callers[2].content
    /\ callers[1].content.toks = <<"eval(1)", "</div>">>
    /\ ~callers[2].verdict.syntax_valid

\* C17: for every interleaving of the steps of the callers, each call
\* returns the verdict it returns when it runs alone.
C17_EachVerdictAsAlone ==
    \A i \in Callers : HasVerdict(i) => callers[i].verdict = VerdictAlone(callers[i].content)

C17_Witness ==
    /\ HasVerdict(1)
    /\ callers[1].content.toks = <<"<div>", "</div>">>
    /\ callers[1].verdict.is_valid
    /\ callers[2].pc = "feed" /\ callers[2].pos = 2
    /\ callers[2].content.toks = <<"<div>", "eval(1)">>

----------------------------------------------------------------------------
(* The scanner and the tag stack                                           *)

Scanned == pc \in {"gate", "done"}

\* number of matches of the k-th registry pattern in the scanned text
MatchesOf(k) == CountMatches(ScanText(html_content), 1, DANGEROUS_PATTERNS[k])

\* C18: scan_dangerous_patterns gives one warning for each of the twelve
\* registry patterns that matches the content, ignoring case, and none for
\* the others; the warnings are in registry order, each names its pattern
\* and the number of its non-overlapping matches, and safe is true exactly
\* when there is no warning.
C18_OneWarningPerMatchingPattern ==
    Scanned =>
        LET w == security.warnings
        IN  /\ \A k \in 1..12 :
                   Cardinality({n \in 1..Len(w) : w[n].pattern = k})
                       = IF MatchesOf(k) > 0 THEN 1 ELSE 0
            /\ \A n \in 1..Len(w) :
                   w[n].pattern \in 1..12 /\ w[n].count = MatchesOf(w[n].pattern)
            /\ \A n \in 1..Len(w), n2 \in 1..Len(w) :
                   n < n2 => w[n].pattern < w[n2].pattern
            /\ security.safe <=> (w = <<>>)

C18_Witness ==
    /\ pc = "done"
    /\ html_content.toks = <<"Fetch (", "<iframe>", "eval(1)", "eval(1)">>
    /\ Len(security.warnings) = 3
    /\ security.warnings[3] = [pattern |-> 8, count |-> 2]

VoidNames ==
    {"area", "base", "br", "col", "embed", "hr", "img", "input", "link", "meta",
     "param", "source", "track", "wbr"}

\* C19: a void element is never on the tag stack; the start tag of a void
\* element leaves the stack as it is and its end tag leaves the stack and
\* the error list as they are; a content of opening void tags alone has no
\* syntax error.
C19_VoidElementsNeverTracked ==
    [][/\ \A k \in 1..Len(tag_stack') : tag_stack'[k] \notin VoidNames
       /\ (Feeding /\ Event.kind \in {"starttag", "endtag"} /\ Event.tag \in VoidNames)
              => tag_stack' = tag_stack /\ errors' = errors /\ pos' = pos + 1
       /\ (/\ pc' = "done"
           /\ html_content'.toks # <<>>
           /\ html_content'.pad.n = 0
           /\ \A k \in 1..Len(html_content'.toks) : html_content'.toks[k] = "<br>")
              => verdict'.syntax_valid /\ verdict'.syntax_errors = <<>>]_vars

C19_Witness ==
    /\ pc = "feed"
    /\ html_content.toks = <<"<div>", "<br>", "</br>", "</div>">>
    /\ pos = 4
    /\ tag_stack = <<"div">>
    /\ errors = <<>>

\* the end tag about to be handled matches frame i of the stack, no frame
\* above i matches it, and every frame above i is an optional-close element
ClosesThrough(i) ==
    /\ Feeding
    /\ Event.kind = "endtag"
    /\ i \in 1..Len(tag_stack)
    /\ tag_stack[i] = Event.tag
    /\ \A j \in (i + 1)..Len(tag_stack) :
           tag_stack[j] # Event.tag
           /\ tag_stack[j] \in {"p", "li", "dt", "dd", "option", "tbody", "thead",
                                "tfoot", "tr", "td", "th"}

\* C20: an end tag whose topmost matching frame is frame i, with only
\* optional-close frames above it, pops the stack through frame i (the
\* frames strictly below i stay) and records no error; <ul><li>a<li>b</ul>
\* and <div><p>text</p></div> have no syntax error.
C20_ImplicitSiblingClose ==
    [][/\ \A i \in 1..Len(tag_stack) :
              ClosesThrough(i) =>
                  /\ tag_stack' = [k \in 1..(i - 1) |-> tag_stack[k]]
                  /\ errors' = errors
       /\ (/\ pc' = "done"
           /\ html_content'.toks \in
                  {<<"<ul>", "<li>", "a", "<li>", "b", "</ul>">>,
                   <<"<div>", "<p>", "text", "</p>", "</div>">>})
              => verdict'.syntax_valid /\ verdict'.syntax_errors = <<>>]_vars

C20_Witness ==
    /\ pc = "feed"
    /\ html_content.toks = <<"<ul>", "<li>", "a", "<li>", "b", "</ul>">>
    /\ pos = 6
    /\ tag_stack = <<"ul", "li", "li">>
    /\ ClosesThrough(1)

\* the topmost frame equal to the end tag about to be handled is frame i and
\* a frame above it is not an optional-close element
ClosesAcross(i) ==
    /\ Feeding
    /\ Event.kind = "endtag"
    /\ i \in 1..Len(tag_stack)
    /\ tag_stack[i] = Event.tag
    /\ \A j \in (i + 1)..Len(tag_stack) : tag_stack[j] # Event.tag
    /\ \E j \in (i + 1)..Len(tag_stack) :
           tag_stack[j] \notin {"p", "li", "dt", "dd", "option", "tbody", "thead",
                                "tfoot", "tr", "td", "th"}

\* C21: an end tag found on the stack under a frame that is not
\* optional-close records one mismatched-closing-tag error and pops nothing;
\* <div><span></div> ends with a mismatch error and with span named in the
\* unclosed-tags error.
C21_MismatchedCloseKeepsStack ==
    [][/\ \A i \in 1..Len(tag_stack) :
              ClosesAcross(i) =>
                  /\ tag_stack' = tag_stack
                  /\ Len(errors') = Len(errors) + 1
                  /\ SubSeq(errors', 1, Len(errors)) = errors
                  /\ errors'[Len(errors')].msg = "Tag mal cerrado"
       /\ (pc' = "done" /\ html_content'.toks = <<"<div>", "<span>", "</div>">>)
              => /\ \E n \in 1..Len(verdict'.syntax_errors) :
                        verdict'.syntax_errors[n].msg = "Tag mal cerrado"
                 /\ \E n \in 1..Len(verdict'.syntax_errors) :
                        /\ verdict'.syntax_errors[n].msg = "Tags criticos sin cerrar"
                        /\ \E t \in 1..Len(verdict'.syntax_errors[n].tags) :
                               verdict'.syntax_errors[n].tags[t] = "span"
                 /\ tag_stack'[Len(tag_stack')] = "span"]_vars

C21_Witness ==
    /\ pc = "feed"
    /\ html_content.toks = <<"<div>", "<span>", "<p>", "</div>", "</span>">>
    /\ pos = 5
    /\ tag_stack = <<"div", "span", "p">>
    /\ Len(errors) = 1 /\ errors[1].tags = <<"span", "div">>

\* the end tag about to be handled is of a non-void element that is on no
\* frame of the stack
ClosesNothing ==
    /\ Feeding
    /\ Event.kind = "endtag"
    /\ Event.tag \notin VoidNames
    /\ \A j \in 1..Len(tag_stack) : tag_stack[j] # Event.tag

\* C22: an end tag of a non-void element that is on no frame of the stack,
\* empty or not, records exactly one error when the tag is not
\* optional-close and none when it is; the stack is unchanged either way.
C22_UnmatchedEndTag ==
    [][ClosesNothing =>
           /\ tag_stack' = tag_stack
           /\ IF Event.tag \in {"p", "li", "dt", "dd", "option", "tbody", "thead",
                                "tfoot", "tr", "td", "th"}
              THEN errors' = errors
              ELSE /\ Len(errors') = Len(errors) + 1
                   /\ SubSeq(errors', 1, Len(errors)) = errors
                   /\ errors'[Len(errors')].tags = <<Event.tag>>]_vars

C22_Witness ==
    /\ pc = "feed"
    /\ html_content.toks = <<"<div>", "</p>", "</span>", "</div>">>
    /\ pos = 4
    /\ tag_stack = <<"div">>
    /\ Len(errors) = 1 /\ errors[1].tags = <<"span">>

OptionalCloseNames ==
    {"p", "li", "dt", "dd", "option", "tbody", "thead", "tfoot", "tr", "td", "th"}

\* the frames of the stack that are not optional-close, bottom first
MustClose(stack) == SelectSeq(stack, LAMBDA t : t \notin OptionalCloseNames)

\* parser.feed has returned and validate_html_syntax finishes
EndOfInput == pc = "feed" /\ pos > Len(html_content.toks)

\* C23: at the end of the input one unclosed-tags error is appended when a
\* frame left on the stack is not optional-close, listing those frames
\* bottom first; when all remaining frames are optional-close or the stack
\* is empty, none is appended.
C23_OneUnclosedError ==
    [][EndOfInput =>
           syntax'.errors =
               IF \E k \in 1..Len(tag_stack) : tag_stack[k] \notin OptionalCloseNames
               THEN Append(errors, [msg |-> "Tags criticos sin cerrar",
                                    tags |-> MustClose(tag_stack)])
               ELSE errors]_vars

C23_Witness ==
    /\ pc = "size"
    /\ html_content.toks = <<"<div>", "<p>", "<div>">>
    /\ tag_stack = <<"div", "p", "div">>
    /\ syntax.errors = <<[msg |-> "Tags criticos sin cerrar", tags |-> <<"div", "div">>]>>

\* C24: the syntax result is valid exactly when its error list is empty;
\* no start or end tag removes a recorded error, an end tag adds at most
\* one, and the errors of the pass are all in the result.
C24_ValidIffNoErrors ==
    [][/\ pc' \in {"size", "scan", "gate", "done"} =>
              (syntax'.valid <=> syntax'.errors = <<>>)
       /\ pc' = "done" =>
              (verdict'.syntax_valid <=> verdict'.syntax_errors = <<>>)
       /\ Feeding =>
              /\ Len(errors') >= Len(errors)
              /\ SubSeq(errors', 1, Len(errors)) = errors
              /\ Len(errors') <= Len(errors) + 1
              /\ Event.kind # "endtag" => errors' = errors
       /\ EndOfInput =>
              /\ Len(syntax'.errors) >= Len(errors)
              /\ SubSeq(syntax'.errors, 1, Len(errors)) = errors]_vars

C24_Witness ==
    /\ pc = "done"
    /\ html_content.toks = <<"<div>", "<span>", "<p>", "</div>", "</span>">>
    /\ Len(verdict.syntax_errors) = 2
    /\ ~verdict.syntax_valid

\* C25: a content over the hard limit is rejected before any expensive
\* work: for a content of more than 512000 bytes the tag parser is not
\* created or fed and the pattern scan is not run.
C25_OversizeSkipsParseAndScan ==
    ByteLength(html_content) > 512000 =>
        /\ ~parser_fed
        /\ pc \notin {"feed", "scan"}
        /\ security = NoSecurity

\* C26: in every verdict is_valid implies can_save, and size_valid is true
\* exactly when size_level is not "error".
C26_VerdictFlagsConsistent ==
    VerdictReturned =>
        /\ verdict.is_valid => verdict.can_save
        /\ verdict.size_valid <=> verdict.size_level # "error"
        /\ ~(verdict.size_level = "ok" /\ ~verdict.size_valid)

C26_Witness ==
    /\ VerdictReturned
    /\ verdict.size_level = "warning"
    /\ verdict.size_valid /\ verdict.can_save /\ ~verdict.is_valid
    /\ verdict.syntax_valid /\ verdict.security_safe

----------------------------------------------------------------------------
(* Where the sanitizer puts its text                                       *)

COMMENT_OPEN == <<"<", "!", "-", "-">>
COMMENT_CLOSE == <<"-", "-", ">">>
SCRIPT_OPEN == <<"<", "s", "c", "r", "i", "p", "t", ">">>
SCRIPT_CLOSE == <<"<", "/", "s", "c", "r", "i", "p", "t", ">">>

\* offset i of s lies after an opening at some offset a and before the first
\* closing that follows that opening
InsideRegion(s, i, opening, closing) ==
    \E a \in 0..(i - 1) :
        /\ OccursAt(s, opening, a)
        /\ a + Len(opening) <= i
        /\ \A b \in (a + Len(opening))..(i - Len(closing)) : ~OccursAt(s, closing, b)

CspOffsets(s) == {i \in 0..(Len(s) - Len(csp_meta)) : OccursAt(s, csp_meta, i)}

\* C27: the policy element injected by sanitize_html_for_rendering is live
\* markup of the output: it is in no comment and in no script body, also
\* when the first <head> or <html> of the input is in one.
C27_CspIsLiveMarkup ==
    pc = "sanitized" =>
        /\ CspOffsets(san_out) # {}
        /\ \A i \in CspOffsets(san_out) :
               /\ ~InsideRegion(san_out, i, COMMENT_OPEN, COMMENT_CLOSE)
               /\ ~InsideRegion(san_out, i, SCRIPT_OPEN, SCRIPT_CLOSE)

\* s with ins put in at 0-based offset k
InsertedAt(s, k, ins) == Slice(s, 0, k) \o ins \o Slice(s, k, Len(s))

CSP_BLOCK == <<"\n">> \o csp_meta

HEAD_BLOCK ==
    <<"\n", "<", "h", "e", "a", "d", ">", "\n">> \o csp_meta
    \o <<"\n", "<", "/", "h", "e", "a", "d", ">">>

\* C28: sanitize_html_for_rendering only inserts text: the output is the
\* input with the policy block put in at one place (case 1), with the head
\* block put in at one place (case 2), or between the skeleton's prefix and
\* suffix (case 3); every character of the input is kept, in order.
C28_OnlyInserts ==
    pc = "sanitized" =>
        IF HasTag(san_in, <<"<", "h", "e", "a", "d", ">">>) THEN
            \E k \in 0..Len(san_in) : san_out = InsertedAt(san_in, k, CSP_BLOCK)
        ELSE IF HasTag(san_in, <<"<", "h", "t", "m", "l", ">">>) THEN
            \E k \in 0..Len(san_in) : san_out = InsertedAt(san_in, k, HEAD_BLOCK)
        ELSE san_out = SkeletonAround(san_in)

C28_Witness ==
    /\ pc = "sanitized"
    /\ html_content.toks = <<"U+0130", "<Html>", "x">>
    /\ san_out = InsertedAt(san_in, Len(san_in), HEAD_BLOCK)

\* the html or head tag name, in any letter case, with a character other
\* than ">" after it, at offset i of s
AttributedTagAt(s, i) ==
    /\ TagAt(s, <<"<", "h", "t", "m", "l">>, i) \/ TagAt(s, <<"<", "h", "e", "a", "d">>, i)
    /\ i + 6 <= Len(s)
    /\ s[i + 6] # ">"

BareTagAt(s, i) ==
    /\ TagAt(s, <<"<", "h", "t", "m", "l">>, i) \/ TagAt(s, <<"<", "h", "e", "a", "d">>, i)
    /\ i + 6 <= Len(s)
    /\ s[i + 6] = ">"

\* C29: only the six-character tokens <head> and <html> are recognised: an
\* input whose html and head tags all carry attributes or whitespace is
\* wrapped, so the output is the skeleton, with the policy element once in
\* its head, around the input and its own html element.
C29_AttributedTagsAreWrapped ==
    (/\ pc = "sanitized"
     /\ \E i \in 0..Len(san_in) : AttributedTagAt(san_in, i)
     /\ \A i \in 0..Len(san_in) : ~BareTagAt(san_in, i))
        => /\ san_out = SkeletonAround(san_in)
           /\ CspOffsets(san_out) = {30}
           /\ \A i \in 0..Len(san_out) :
                  AttributedTagAt(san_out, i) => i > 30 + Len(csp_meta)

C29_Witness ==
    /\ pc = "sanitized"
    /\ html_content.toks = <<"<html lang=\"en\">", "<head lang=\"en\">", "<p>">>
    /\ \E i \in 0..Len(san_out) :
           TagAt(san_out, <<"<", "h", "e", "a", "d", " ", "l", "a", "n", "g">>, i)

ShowLoads == {k \in 1..Len(loads) : loads[k].via = "showEvent"}

\* C30: however often a dialog with static content is shown, every show
\* loads the sanitized form of the stored content, which nothing modifies:
\* the document is the same on every show and holds exactly one policy
\* element more than the stored content; the url of a dialog that has both
\* is never loaded by a show.
C30_ShowsNeverDoubleInject ==
    (dlg_pc = "ready" /\ Truthy(self_html_content)) =>
        \A k \in ShowLoads :
            /\ loads[k].kind = "setHtml"
            /\ loads[k].raw = self_html_content.text
            /\ \A j \in ShowLoads : loads[j].doc = loads[k].doc
            /\ CspCount(loads[k].doc) = CspCount(loads[k].raw) + 1

====
